---------------------------- MODULE Spec2Model ----------------------------
(***************************************************************************)
(* A model of the RAML client generator: the top-level run (index.ts),     *)
(* the progress reporter (todo.ts) and the Go target (targets/go/index.ts):*)
(* name resolution, type translation, model generation and endpoint        *)
(* generation over the source builder.                                     *)
(*                                                                         *)
(* Strings are TLA+ strings; a character is a string of length one.        *)
(***************************************************************************)
EXTENDS Integers, Sequences, FiniteSets, TLC

VARIABLES
    \* ---- the top-level run (index.ts) and its environment
    pc,            \* position of the main promise chain
    env,           \* what the run finds outside: tty, gofmt, the RAML file, the disk
    api,           \* the API model loadApi resolved with (NoApi before)
    started,       \* the steps of the chain started so far, in order
    failedStep,    \* the step that rejected or threw ("none" while none did)
    exitStatus,    \* the status passed to process.exit (NoExit while running)
    todoMain,      \* Todo of index.ts: its `current` field
    todoGen,       \* Todo of GoTarget.generate: its `current` field
    stderr,        \* the start/finish messages written so far
    \* ---- the source builder (lang.ts): one Module with its two Files
    models,        \* File "models.go"
    endpoints,     \* File "endpoints.go"
    identifiers,   \* the Module's identifier registry
    \* ---- the generators' progress
    typeIdx,       \* createModels: how many of api.types() were visited
    processed,     \* createEndpoints: the (resource, method) pairs visited, in order
    genError,      \* what the tree walk threw ("none" while nothing)
    \* ---- calls of the pure helpers
    call,          \* the last helper call: [fn, arg, out]
    \* ---- the generated client at run time
    run,           \* one call of a generated function: its inputs, position and trace
    client         \* the bootstrap Client (bootstrap.go): its filters, and one do()

mainVars == <<pc, env, api, started, failedStep, exitStatus, todoMain, todoGen, stderr>>
builderVars == <<models, endpoints, identifiers>>
genVars == <<typeIdx, processed, genError>>
goVars == <<run, client>>
vars == <<pc, env, api, started, failedStep, exitStatus, todoMain, todoGen, stderr,
          models, endpoints, identifiers, typeIdx, processed, genError, call, run,
          client>>

-----------------------------------------------------------------------------
(* Bounds *)

\* The depth of nested calls at which the engine throws RangeError.
MaxCallDepth == 4
\* How many (resource, method) pairs one run of createEndpoints visits.
MaxPairs == 2

-----------------------------------------------------------------------------
(* Characters and strings *)

LowerStr == "abcdefghijklmnopqrstuvwxyz"
UpperStr == "ABCDEFGHIJKLMNOPQRSTUVWXYZ"
DigitStr == "0123456789"

CharAt(s, i) == SubSeq(s, i, i)

Chars(s) == { CharAt(s, i) : i \in 1..Len(s) }

LowerChars == Chars(LowerStr)
AlnumChars == Chars(LowerStr) \cup Chars(UpperStr) \cup Chars(DigitStr)

\* [a-z0-9] under the i flag
IsAlnum(c) == c \in AlnumChars

\* String.prototype.toUpperCase, character by character
UpperOf ==
    [c \in LowerChars |->
        CharAt(UpperStr, CHOOSE i \in 1..Len(LowerStr) : CharAt(LowerStr, i) = c)]

ToUpperChar(c) == IF c \in LowerChars THEN UpperOf[c] ELSE c

StartsWith(s, p) == Len(s) >= Len(p) /\ SubSeq(s, 1, Len(p)) = p

EndsWith(s, p) == Len(s) >= Len(p) /\ SubSeq(s, Len(s) - Len(p) + 1, Len(s)) = p

Drop(s, n) == SubSeq(s, n + 1, Len(s))

\* str.indexOf(p) !== -1
Contains(s, p) == \E i \in 1..(Len(s) - Len(p) + 1) : SubSeq(s, i, i + Len(p) - 1) = p

\* str.replace(/needle/g, rep): every non-overlapping occurrence, left to right
RECURSIVE ReplaceAll(_, _, _)
ReplaceAll(s, needle, rep) ==
    IF Len(s) < Len(needle) THEN s
    ELSE IF StartsWith(s, needle)
         THEN rep \o ReplaceAll(Drop(s, Len(needle)), needle, rep)
         ELSE CharAt(s, 1) \o ReplaceAll(Drop(s, 1), needle, rep)

\* str.replace(needle, rep) with a string needle: the first occurrence only
RECURSIVE ReplaceFirst(_, _, _)
ReplaceFirst(s, needle, rep) ==
    IF Len(s) < Len(needle) THEN s
    ELSE IF StartsWith(s, needle)
         THEN rep \o Drop(s, Len(needle))
         ELSE CharAt(s, 1) \o ReplaceFirst(Drop(s, 1), needle, rep)

\* str.replace(/[^a-z0-9]/ig, "")
RECURSIVE StripNonAlnum(_)
StripNonAlnum(s) ==
    IF s = "" THEN ""
    ELSE (IF IsAlnum(CharAt(s, 1)) THEN CharAt(s, 1) ELSE "") \o StripNonAlnum(Drop(s, 1))

RECURSIVE DropSeparators(_)
DropSeparators(s) ==
    IF s = "" \/ IsAlnum(CharAt(s, 1)) THEN s ELSE DropSeparators(Drop(s, 1))

\* str.split(/[^a-z0-9]+/ig): the pieces between the maximal runs of separators; a
\* leading or trailing run leaves an empty first or last piece
RECURSIVE SplitFrom(_, _)
SplitFrom(s, cur) ==
    IF s = "" THEN <<cur>>
    ELSE IF IsAlnum(CharAt(s, 1))
         THEN SplitFrom(Drop(s, 1), cur \o CharAt(s, 1))
         ELSE <<cur>> \o SplitFrom(DropSeparators(s), "")

SplitNonAlnum(s) == SplitFrom(s, "")

\* str.split("/")
RECURSIVE SplitSlashFrom(_, _)
SplitSlashFrom(s, cur) ==
    IF s = "" THEN <<cur>>
    ELSE IF CharAt(s, 1) = "/"
         THEN <<cur>> \o SplitSlashFrom(Drop(s, 1), "")
         ELSE SplitSlashFrom(Drop(s, 1), cur \o CharAt(s, 1))

SplitSlash(s) == SplitSlashFrom(s, "")

\* Array.prototype.join("")
RECURSIVE Join(_)
Join(parts) == IF parts = <<>> THEN "" ELSE Head(parts) \o Join(Tail(parts))

-----------------------------------------------------------------------------
(* NameResolver and TypeTranslator (targets/go/index.ts) *)

upperFirst(str) ==
    IF str = "" THEN "" ELSE ToUpperChar(CharAt(str, 1)) \o Drop(str, 1)

\* const capitalizations = [{ needle: /Id/g, ... }, { needle: /Oauth/g, ... }]
capitalizations ==
    << [needle |-> "Id", replace |-> "ID"],
       [needle |-> "Oauth", replace |-> "OAuth"] >>

\* fixCaps stopping at the first rule that matches: the later rules never apply
fixCapsFirstMatch(str) ==
    IF \E i \in 1..Len(capitalizations) : Contains(str, capitalizations[i].needle)
    THEN LET i == CHOOSE k \in 1..Len(capitalizations) :
                     /\ Contains(str, capitalizations[k].needle)
                     /\ \A j \in 1..(k - 1) : ~Contains(str, capitalizations[j].needle)
         IN  ReplaceAll(str, capitalizations[i].needle, capitalizations[i].replace)
    ELSE str

RECURSIVE fixCapsFrom(_, _)
fixCapsFrom(str, i) ==
    IF i > Len(capitalizations) THEN str
    ELSE fixCapsFrom(ReplaceAll(str, capitalizations[i].needle, capitalizations[i].replace),
                     i + 1)

fixCaps(str) == fixCapsFrom(str, 1)

RECURSIVE translateTypeString(_)
translateTypeString(str) ==
    IF EndsWith(str, "[]") THEN "[]" \o translateTypeString(SubSeq(str, 1, Len(str) - 2))
    ELSE IF Contains(str, "|") THEN "interface{}"
    ELSE CASE str = "string"              -> "string"
           [] str = "integer"             -> "int"
           [] str = "number"              -> "int"
           [] str = "uint"                -> "uint"
           [] str = "boolean"             -> "bool"
           [] str = "object"              -> "map[string]interface{}"
           [] str = "file"                -> "io.Reader"
           [] str = "IsoDate"             -> "time.Time"
           [] str = "UnixTimestampMillis" -> "time.Time"
           [] OTHER                       -> str

\* A type declaration is a record [name, required, type, items, isObject,
\* properties]: type is type() (a sequence of strings), items is items() of an
\* array declaration (a record with a type field), isObject is
\* ("properties" in type).
translateType(type) ==
    fixCaps((IF type.required THEN "" ELSE "*")
              \o (IF type.type[1] = "array"
                  THEN "[]" \o translateTypeString(type.items.type[1])
                  ELSE translateTypeString(type.type[1])))

\* name.split(...).map((str, i) => (i > 0 || isExported) ? upperFirst(str) : str)
mapUpperFirst(parts, isExported) ==
    [i \in 1..Len(parts) |-> IF i > 1 \/ isExported THEN upperFirst(parts[i]) ELSE parts[i]]

\* if (name === "type") { name = "kind"; }
RenameKeyword(name) == IF name = "type" THEN "kind" ELSE name

translatePropName(name, isExported) ==
    fixCaps(RenameKeyword(Join(mapUpperFirst(SplitNonAlnum(name), isExported))))

-----------------------------------------------------------------------------
(* The API model (raml-1-parser's api10 object graph), as records *)

Null == "<null>"
NoItems == [type |-> <<>>]
NoApi == [types |-> <<>>, pairs |-> <<>>]

\* A scalar declaration: name(), type() = [kind], required()
Scalar(name, kind, required) ==
    [name |-> name, required |-> required, type |-> <<kind>>, items |-> NoItems,
     isObject |-> FALSE, properties |-> <<>>, displayName |-> name]

\* An array declaration: type() = ["array"], items()
Array(name, items, required) ==
    [name |-> name, required |-> required, type |-> <<"array">>, items |-> items,
     isObject |-> FALSE, properties |-> <<>>, displayName |-> name]

\* An object declaration: type() lists its supertypes, properties() its own properties
Object(name, supers, props) ==
    [name |-> name, required |-> TRUE, type |-> supers, items |-> NoItems,
     isObject |-> TRUE, properties |-> props, displayName |-> name]

-----------------------------------------------------------------------------
(* SourceBuilder: Module, File, Struct, Func (lang.ts) *)

EmptyFile == [imports |-> {}, structs |-> <<>>, funcs |-> <<>>]

\* The position of the entry called name in a sequence of named records, 0 if none
IndexOfName(seq, name) ==
    IF \E i \in 1..Len(seq) : seq[i].name = name
    THEN CHOOSE i \in 1..Len(seq) :
            /\ seq[i].name = name
            /\ \A j \in 1..(i - 1) : seq[j].name # name
    ELSE 0

HasStruct(file, name) == IndexOfName(file.structs, name) # 0
HasFunc(file, name) == IndexOfName(file.funcs, name) # 0

\* file.import(pkg): registers an import, once
FileImport(file, pkg) == [file EXCEPT !.imports = @ \cup {pkg}]

\* file.struct(name): the Struct called name, created empty on first request
FileStruct(file, name) ==
    IF HasStruct(file, name) THEN file
    ELSE [file EXCEPT !.structs = Append(@, [name |-> name, fields |-> <<>>])]

\* struct.field(name, type, tag): appends; fields are not deduplicated
StructFields(file, name, fields) ==
    [file EXCEPT !.structs[IndexOfName(file.structs, name)].fields = @ \o fields]

\* file.func(name): the Func called name, created empty on first request
FileFunc(file, name) ==
    IF HasFunc(file, name) THEN file
    ELSE [file EXCEPT !.funcs = Append(@, [name |-> name, receiver |-> "",
                                           args |-> <<>>, returns |-> <<>>,
                                           body |-> <<>>])]

\* func.methodOf(receiver)
FuncMethodOf(file, name, receiver) ==
    [file EXCEPT !.funcs[IndexOfName(file.funcs, name)].receiver = receiver]

\* func.arg(name, type) and func.addArgs(...args): append in call order
FuncArgs(file, name, args) ==
    [file EXCEPT !.funcs[IndexOfName(file.funcs, name)].args = @ \o args]

\* func.returns(type): appends in call order
FuncReturns(file, name, types) ==
    [file EXCEPT !.funcs[IndexOfName(file.funcs, name)].returns = @ \o types]

\* func.write(text): appends the text, here line by line
FuncWrite(file, name, lines) ==
    [file EXCEPT !.funcs[IndexOfName(file.funcs, name)].body = @ \o lines]

StructOf(file, name) == file.structs[IndexOfName(file.structs, name)]
FuncOf(file, name) == file.funcs[IndexOfName(file.funcs, name)]

\* The names the Module's registry holds once file's structs and funcs exist
FileIdentifiers(file) ==
    { file.structs[i].name : i \in 1..Len(file.structs) }
        \cup { file.funcs[i].name : i \in 1..Len(file.funcs) }

-----------------------------------------------------------------------------
(* ModelGenerator: generateStruct and createModels *)

\* struct.field(translatePropName(prop.name()), translateType(prop), `json:"..."`)
FieldOf(prop) ==
    [name |-> translatePropName(prop.name, TRUE),
     type |-> translateType(prop),
     tag  |-> "json:\"" \o prop.name \o "\""]

FieldsOf(props) == [i \in 1..Len(props) |-> FieldOf(props[i])]

\* api.types().some(type => type.name() === subtype): the first type so named
FindType(types, name) == IndexOfName(types, name)

\* gen(type): the fields it appends, own properties first, then each supertype's in
\* the order of type(), depth first. No set of visited names is kept; a call nested
\* deeper than the engine's stack allows throws RangeError, and what was appended
\* before the throw stays appended.
RECURSIVE gen(_, _, _)
RECURSIVE genSupers(_, _, _, _, _)
gen(types, type, depth) ==
    IF depth > MaxCallDepth THEN [fields |-> <<>>, thrown |-> TRUE]
    ELSE IF ~type.isObject THEN [fields |-> <<>>, thrown |-> FALSE]
    ELSE genSupers(types, type.type, 1, depth, FieldsOf(type.properties))

\* What follows gen(found) in objType.type().forEach: r is what that call did
genAfter(types, supers, k, depth, acc, r) ==
    IF r.thrown THEN [fields |-> acc \o r.fields, thrown |-> TRUE]
    ELSE genSupers(types, supers, k + 1, depth, acc \o r.fields)

\* The (k)th supertype: i is its place in api.types() (0: no type so named)
genSuper(types, supers, k, depth, acc, i) ==
    IF i = 0 THEN genSupers(types, supers, k + 1, depth, acc)
    ELSE genAfter(types, supers, k, depth, acc, gen(types, types[i], depth + 1))

genSupers(types, supers, k, depth, acc) ==
    IF k > Len(supers) THEN [fields |-> acc, thrown |-> FALSE]
    ELSE genSuper(types, supers, k, depth, acc, FindType(types, supers[k]))

\* file.struct(name), then the fields gen appended to it
StructWith(file, name, r) ==
    [file |-> StructFields(FileStruct(file, name), name, r.fields), thrown |-> r.thrown]

generateStruct(file, types, name, type) == StructWith(file, name, gen(types, type, 1))

\* One visit of api.types().forEach in createModels: the (i)th type
Registered(made, ids, name) ==
    [file |-> made.file, ids |-> ids \cup {name}, thrown |-> made.thrown]

createModelsVisit(file, ids, types, i) ==
    IF ~types[i].isObject
    THEN [file |-> file, ids |-> ids, thrown |-> FALSE]
    ELSE Registered(generateStruct(file, types, types[i].name, types[i]), ids,
                    types[i].name)

RECURSIVE createModelsFrom(_, _, _, _)
createModelsAfter(r, types, i) ==
    IF r.thrown THEN r ELSE createModelsFrom(r.file, r.ids, types, i + 1)

createModelsFrom(file, ids, types, i) ==
    IF i > Len(types) THEN [file |-> file, ids |-> ids, thrown |-> FALSE]
    ELSE createModelsAfter(createModelsVisit(file, ids, types, i), types, i)

\* GoTarget.createModels(api, module.file("models.go"))
createModels(types) == createModelsFrom(EmptyFile, {}, types, 1)

-----------------------------------------------------------------------------
(* EndpointGenerator: inferMethodName and class Request *)

\* A resource is [absoluteUri, absoluteUriParameters]; a method is [displayName,
\* method, queryParameters, is, body, responses]; a trait (an entry of is) is
\* [queryParameters, body]; a response is [code, body].

\* method.responses().find(res => Number(res.code().value()) < 300), as an index
\* into responses (0: undefined)
getSuccessfulResponse(method) ==
    IF \E i \in 1..Len(method.responses) : method.responses[i].code < 300
    THEN CHOOSE i \in 1..Len(method.responses) :
            /\ method.responses[i].code < 300
            /\ \A j \in 1..(i - 1) : method.responses[j].code >= 300
    ELSE 0

\* /^\{.+\}$/
IsParamSegment(seg) == Len(seg) >= 3 /\ StartsWith(seg, "{") /\ EndsWith(seg, "}")

\* How many leading path segments inferMethodName drops: .slice(5)
PrefixDepth == 5

\* The body type that may name the function: sr && sr.body().length &&
\* sr.body()[0].type()[0], "" when that is falsy
PrimaryOf(method, sr) ==
    IF sr # 0 /\ Len(method.responses[sr].body) > 0
    THEN method.responses[sr].body[1].type[1]
    ELSE ""

\* parts[parts.length - 1] = primary when primary starts with no lower-case letter;
\* on an empty array the assignment sets no element
NamedParts(parts, primary) ==
    IF primary # "" /\ ToUpperChar(CharAt(primary, 1)) = CharAt(primary, 1)
       /\ Len(parts) > 0
    THEN [parts EXCEPT ![Len(parts)] = primary]
    ELSE parts

UpperFirstAll(parts) == [i \in 1..Len(parts) |-> upperFirst(parts[i])]

VerbName(verb, tail) ==
    CASE verb = "get"    -> "Get" \o tail
      [] verb = "post"   -> "Create" \o tail
      [] verb = "put"    -> "Update" \o tail
      [] verb = "patch"  -> "Update" \o tail
      [] verb = "delete" -> "Delete" \o tail
      [] OTHER           -> "UNKNOWN"

inferMethodName(resource, method) ==
    IF method.displayName # Null THEN method.displayName
    ELSE VerbName(method.method,
            fixCaps(StripNonAlnum(Join(NamedParts(
                Drop(UpperFirstAll(SelectSeq(SplitSlash(resource.absoluteUri),
                                             LAMBDA seg : ~IsParamSegment(seg))),
                     PrefixDepth),
                PrimaryOf(method, getSuccessfulResponse(method)))))))

\* absoluteUriParameters().slice(1)
PathParams(resource) ==
    SubSeq(resource.absoluteUriParameters, 2, Len(resource.absoluteUriParameters))

PathArg(param) ==
    [name |-> translatePropName(param.name, FALSE), type |-> translateType(param)]

PathArgs(ps) == [i \in 1..Len(ps) |-> PathArg(ps[i])]

getPathFmtArgs(resource) == PathArgs(PathParams(resource))

\* The placeholder getPathFmtCall writes for one path parameter
Placeholder(param) == IF param.type[1] = "number" THEN "%d" ELSE "%s"

RECURSIVE fmtUri(_, _, _)
fmtUri(uri, ps, i) ==
    IF i > Len(ps) THEN uri
    ELSE fmtUri(ReplaceFirst(uri, "{" \o ps[i].name \o "}", Placeholder(ps[i])), ps, i + 1)

RECURSIVE JoinArgs(_)
JoinArgs(args) ==
    IF args = <<>> THEN "" ELSE ", " \o Head(args).name \o JoinArgs(Tail(args))

\* new Call("fmt.Sprintf", ...args).toString().trim()
CallString(fn, first, args) == fn \o "(" \o first \o JoinArgs(args) \o ")"

\* getPathFmtCall: the URL expression, and whether "fmt" was imported for it
PathFmtCall(uri, ps, args) ==
    IF Len(args) = 0
    THEN [text |-> "\"" \o uri \o "\" + q", fmt |-> FALSE]
    ELSE [text |-> CallString("fmt.Sprintf", "\"" \o fmtUri(uri, ps, 1) \o "\"", args)
                     \o " + q",
          fmt |-> TRUE]

getPathFmtCall(resource) ==
    PathFmtCall(ReplaceFirst(resource.absoluteUri, "{version}", "1"),
                PathParams(resource), getPathFmtArgs(resource))

\* method.is().reduce((params, trait) => params.concat(trait.trait().X()), method.X())
RECURSIVE QueryParamsFrom(_, _)
QueryParamsFrom(params, traits) ==
    IF traits = <<>> THEN params
    ELSE QueryParamsFrom(params \o Head(traits).queryParameters, Tail(traits))

QueryParamsOf(method) == QueryParamsFrom(method.queryParameters, method.is)

RECURSIVE BodiesFrom(_, _)
BodiesFrom(params, traits) ==
    IF traits = <<>> THEN params
    ELSE BodiesFrom(params \o Head(traits).body, Tail(traits))

BodiesOf(method) == BodiesFrom(method.body, method.is)

\* The state of one Request while it generates one function: the file, the
\* Module's registry, the three WriteCollectors, and whether something threw.
NewRequest(file, ids) ==
    [file |-> file, ids |-> ids, before |-> <<>>, options |-> <<>>, after |-> <<>>,
     thrown |-> FALSE]

\* The field and the v.Set line generateQueryParams writes for one parameter
QueryField(prop) ==
    [name |-> translatePropName(prop.name, TRUE),
     type |-> translateTypeString(prop.type[1]),
     tag  |-> ""]

QuerySetLine(prop) ==
    "v.Set(\"" \o prop.name \o "\", query." \o translatePropName(prop.name, TRUE) \o ")"

ParamsStructName(func) == func \o "Params"
PayloadStructName(func) == func \o "Payload"

QueryFields(queryParams) == [i \in 1..Len(queryParams) |-> QueryField(queryParams[i])]
QuerySetLines(queryParams) == [i \in 1..Len(queryParams) |-> QuerySetLine(queryParams[i])]

QueryParamsInto(req, func, queryParams, type) ==
    IF Len(queryParams) = 0
    THEN [req EXCEPT !.before = @ \o << "q := \"\"" >>]
    ELSE [req EXCEPT
            !.file = StructFields(
                        FuncArgs(FileStruct(FileImport(req.file, "net/url"), type),
                                 func, << [name |-> "query", type |-> type] >>),
                        type, QueryFields(queryParams)),
            !.ids = @ \cup {type},
            !.before = @ \o << "v := url.Values{}" >> \o QuerySetLines(queryParams)
                         \o << "q := \"?\" + v.Encode()" >>]

generateQueryParams(req, func, method) ==
    QueryParamsInto(req, func, QueryParamsOf(method), ParamsStructName(func))

MarshalLines ==
    << "body, err := json.Marshal(payload)", "if err != nil {", "return err", "}" >>

BodyOptionLines ==
    << "Body: bytes.NewReader(body),",
       "ContentLength: len(body),",
       "Header: http.Header{\"Content-Type\": {\"application/json\"}}," >>

\* case "application/json", once the payload's type is settled: made is the file
\* (and whether generateStruct threw) when a Payload struct had to be generated
JsonBodyInto(req, func, type, made) ==
    IF made.thrown
    THEN [req EXCEPT !.file = made.file, !.ids = @ \cup {type}, !.thrown = TRUE]
    ELSE [req EXCEPT
            !.file = FileImport(FileImport(
                        FuncArgs(made.file, func, << [name |-> "payload", type |-> type] >>),
                        "bytes"), "encoding/json"),
            !.ids = @ \cup {type},
            !.before = @ \o MarshalLines,
            !.options = @ \o BodyOptionLines]

\* named is translateTypeString(body.type()[0]); module.getIdentifier(named) decides
\* between the named type and a <func>Payload struct of its own
JsonBody(req, func, types, body, named) ==
    IF named \in req.ids
    THEN JsonBodyInto(req, func, named, [file |-> req.file, thrown |-> FALSE])
    ELSE JsonBodyInto(req, func, PayloadStructName(func),
                      generateStruct(req.file, types, PayloadStructName(func), body))

BodyInto(req, func, types, bodies) ==
    IF Len(bodies) = 0 THEN req
    ELSE IF bodies[1].displayName = "application/json"
    THEN JsonBody(req, func, types, bodies[1], translateTypeString(bodies[1].type[1]))
    \* case "multipart/form-data": // todo      default: console.error(...)
    ELSE req

generateBodyParams(req, func, method, types) == BodyInto(req, func, types, BodiesOf(method))

\* The template with the decode moved in front of the status check
DecodeLinesEager(resType) ==
    << "var typ " \o (IF resType # "" THEN resType ELSE "undefined"),
       "if err := json.NewDecoder(res.Body).Decode(&typ); err != nil {",
       "return err",
       "}",
       "if err != nil || res.StatusCode >= 300 {",
       "return res, " \o (IF resType # "" THEN "nil, " ELSE "") \o "err",
       "}",
       "return res, typ, nil" >>

DecodeLines(resType) ==
    << "if err != nil || res.StatusCode >= 300 {",
       "return res, " \o (IF resType # "" THEN "nil, " ELSE "") \o "err",
       "}",
       "var typ " \o (IF resType # "" THEN resType ELSE "undefined"),
       "if err := json.NewDecoder(res.Body).Decode(&typ); err != nil {",
       "return err",
       "}",
       "return res, typ, nil" >>

\* resType is undefined (here "") unless the successful response has a body
ReturnsInto(req, func, goodRes, resType) ==
    [req EXCEPT
        !.file = FuncReturns(req.file, func,
                    << "*http.Response" >>
                      \o (IF resType # "" THEN << resType >> ELSE <<>>)
                      \o << "error" >>),
        !.after = @ \o (IF goodRes = 0 THEN << "return res, err" >>
                        ELSE DecodeLines(resType))]

ResTypeOf(method, goodRes) ==
    IF goodRes # 0 /\ Len(method.responses[goodRes].body) > 0
    THEN translateType(method.responses[goodRes].body[1])
    ELSE ""

generateFuncReturns(req, func, method) ==
    ReturnsInto(req, func, getSuccessfulResponse(method),
                ResTypeOf(method, getSuccessfulResponse(method)))

\* this.func.write(`${before} res, err := c.do(&http.Request{...}) ${after}`)
RequestWrite(req, func, verb, url) ==
    IF req.thrown
    THEN [file |-> req.file, ids |-> req.ids, thrown |-> TRUE]
    ELSE [file |-> FuncWrite(IF url.fmt THEN FileImport(req.file, "fmt") ELSE req.file,
                             func,
                             req.before
                               \o << "res, err := c.do(&http.Request{",
                                     "Method: \"" \o verb \o "\",",
                                     "URL: " \o url.text \o "," >>
                               \o req.options
                               \o << "})" >>
                               \o req.after),
          ids |-> req.ids,
          thrown |-> FALSE]

\* What generateBodyParams threw skips generateFuncReturns and the write
ReturnsUnlessThrown(req, func, method) ==
    IF req.thrown THEN req ELSE generateFuncReturns(req, func, method)

\* this.func = this.file.func(name); this.func.methodOf("c *Client").addArgs(...)
OpenFunc(file, func, resource) ==
    FuncArgs(FuncMethodOf(FileFunc(FileImport(file, "net/http"), func), func, "c *Client"),
             func, getPathFmtArgs(resource))

RequestMethodNamed(file, ids, resource, method, types, func) ==
    RequestWrite(
        ReturnsUnlessThrown(
            generateBodyParams(
                generateQueryParams(NewRequest(OpenFunc(file, func, resource),
                                               ids \cup {func}),
                                    func, method),
                func, method, types),
            func, method),
        func, method.method, getPathFmtCall(resource))

\* Request.method(method): the whole of it, for one (resource, method) pair
RequestMethod(file, ids, resource, method, types) ==
    RequestMethodNamed(file, ids, resource, method, types,
                       inferMethodName(resource, method))

\* GoTarget.createEndpoints(api, module.file("endpoints.go")): pairs lists the
\* (resource, method) pairs in the order generateMethods visits them
RECURSIVE createEndpointsFrom(_, _, _, _, _)
createEndpointsAfter(r, pairs, types, i) ==
    IF r.thrown THEN r ELSE createEndpointsFrom(r.file, r.ids, pairs, types, i + 1)

createEndpointsFrom(file, ids, pairs, types, i) ==
    IF i > Len(pairs) THEN [file |-> file, ids |-> ids, thrown |-> FALSE]
    ELSE createEndpointsAfter(
            RequestMethod(file, ids, pairs[i].resource, pairs[i].method, types),
            pairs, types, i)

createEndpoints(ids, pairs, types) == createEndpointsFrom(EmptyFile, ids, pairs, types, 1)

\* The tree walk of GoTarget.generate: createModels, then createEndpoints unless
\* createModels threw
WalkAfterModels(m, pairs, types) ==
    IF m.thrown
    THEN [models |-> m.file, endpoints |-> EmptyFile, ids |-> m.ids, thrown |-> TRUE]
    ELSE [models |-> m.file,
          endpoints |-> createEndpoints(m.ids, pairs, types).file,
          ids |-> createEndpoints(m.ids, pairs, types).ids,
          thrown |-> createEndpoints(m.ids, pairs, types).thrown]

GenerateWalk(a) == WalkAfterModels(createModels(a.types), a.pairs, a.types)

-----------------------------------------------------------------------------
(* The inputs the specifications draw from *)

\* Names given to translatePropName: two words around a separator
Words == {"", "type", "id", "Id", "oauth", "user", "func", "range", "identity"}
Separators == {"", "_", "-", "__"}
PropNames == { a \o sep \o b : a \in Words, sep \in Separators, b \in Words }

\* Strings given to fixCaps
Identifiers == { upperFirst(a) \o upperFirst(b) : a \in Words, b \in Words }

\* Type strings given to translateTypeString
Kinds == {"string", "integer", "number", "uint", "boolean", "object", "file",
          "IsoDate", "UnixTimestampMillis", "string|number", "UserId", "OauthToken"}
TypeStrings == Kinds \cup { k \o "[]" : k \in Kinds } \cup { k \o "[][]" : k \in Kinds }

\* Declarations given to translateType: scalars, arrays, arrays of arrays
ScalarDecls == { Scalar("p", k, r) : k \in Kinds, r \in BOOLEAN }
ArrayDecls ==
    { Array("p", [type |-> <<k>>, items |-> NoItems], r) : k \in Kinds, r \in BOOLEAN }
        \cup { Array("p", [type |-> <<"array">>, items |-> [type |-> <<k>>]], r) :
                 k \in {"string", "UserId"}, r \in BOOLEAN }
TypeDecls == ScalarDecls \cup ArrayDecls

\* The object types of the model generator's inputs: each extends nothing
\* (type() = ["object"]), one type, or two
TypeNames == {"Base", "UserId", "Team"}
SuperLists ==
    { <<"object">> } \cup { <<a>> : a \in TypeNames }
        \cup { s \in TypeNames \X TypeNames : s[1] # s[2] }

BaseProps == << Scalar("id", "string", TRUE), Scalar("count", "integer", FALSE) >>
UserIdProps == << Scalar("type", "string", FALSE) >>
TeamProps ==
    << Scalar("owner", "UserId", TRUE),
       Array("tags", [type |-> <<"string">>, items |-> NoItems], FALSE) >>

TypesWith(sBase, sUser, sTeam) ==
    << Object("Base", sBase, BaseProps),
       Scalar("Email", "string", TRUE),
       Object("UserId", sUser, UserIdProps),
       Object("Team", sTeam, TeamProps) >>

ModelApis ==
    { [types |-> TypesWith(a, b, c), pairs |-> <<>>] :
        a \in SuperLists, b \in SuperLists, c \in SuperLists }

\* The types of the endpoint generator's inputs
PlainTypes == TypesWith(<<"object">>, <<"Base">>, <<"object">>)
CyclicTypes == TypesWith(<<"UserId">>, <<"Base">>, <<"object">>)

\* Resources: absoluteUri() and absoluteUriParameters(), the version parameter first
BaseUri == "https://h/api/v{version}"
VersionParam == Scalar("version", "string", TRUE)
Resources ==
    { [absoluteUri |-> BaseUri \o "/x",
       absoluteUriParameters |-> << VersionParam >>],
      [absoluteUri |-> BaseUri \o "/x/{id}",
       absoluteUriParameters |-> << VersionParam, Scalar("id", "integer", TRUE) >>],
      [absoluteUri |-> BaseUri \o "/y/{user_id}/z/{slug}",
       absoluteUriParameters |-> << VersionParam, Scalar("user_id", "number", TRUE),
                                    Scalar("slug", "string", TRUE) >>] }

PlainResource == CHOOSE r \in Resources : Len(r.absoluteUriParameters) = 1

\* Methods: a plain GET, and what differs from it in one respect (and in two, for
\* the combinations of a body with a response)
Verbs == {"get", "post", "head"}
QueryChoices ==
    { <<>>, << Scalar("limit", "integer", FALSE) >>,
      << Scalar("limit", "integer", FALSE), Scalar("q", "string", TRUE) >> }
TraitChoices ==
    { <<>>, << [queryParameters |-> << Scalar("page", "integer", TRUE) >>,
                body |-> <<>>] >> }
JsonInline == Object("application/json", <<"object">>, << Scalar("title", "string", TRUE) >>)
JsonNamed == Object("application/json", <<"Base">>, <<>>)
Multipart == Object("multipart/form-data", <<"object">>, << Scalar("upload", "file", TRUE) >>)
TextPlain == Scalar("text/plain", "string", TRUE)
BodyChoices == { <<>>, <<JsonInline>>, <<JsonNamed>>, <<Multipart>>, <<TextPlain>> }
ResponseChoices ==
    { <<>>,
      << [code |-> 204, body |-> <<>>] >>,
      << [code |-> 200, body |-> << Scalar("application/json", "Team", TRUE) >>] >>,
      << [code |-> 404, body |-> << Scalar("application/json", "string", TRUE) >>],
         [code |-> 200, body |-> << Scalar("application/json", "string", FALSE) >>] >> }
NameChoices == {Null, "List"}

PlainMethod ==
    [displayName |-> Null, method |-> "get", queryParameters |-> <<>>, is |-> <<>>,
     body |-> <<>>, responses |-> <<>>]

\* In how many respects a method differs from the plain GET
Differences(m) ==
    Cardinality({ f \in {"displayName", "method", "queryParameters", "is", "body"} :
                    m[f] # PlainMethod[f] })

Methods ==
    { m \in [displayName : NameChoices, method : Verbs, queryParameters : QueryChoices,
             is : TraitChoices, body : BodyChoices, responses : ResponseChoices] :
        Differences(m) <= 1 }

Pairs == { [resource |-> r, method |-> m] : r \in Resources, m \in Methods }

-----------------------------------------------------------------------------
(* Todo (todo.ts) *)

NoTask == "<undefined>"

\* finish(): writes the tick line of this.current; current is left as it is
TodoFinish(current, log) == Append(log, [kind |-> "finish", task |-> current])

\* start(name): finishes the current task if there is one, writes the pointer line
TodoStart(current, log, name) ==
    [current |-> name,
     log |-> Append(IF current # NoTask THEN TodoFinish(current, log) ELSE log,
                    [kind |-> "start", task |-> name])]

-----------------------------------------------------------------------------
(* The top-level run (index.ts) *)

\* The RAML files a run may be pointed at
RamlFiles ==
    [ empty     |-> [types |-> <<>>, pairs |-> <<>>],
      plain     |-> [types |-> PlainTypes,
                     pairs |-> << [resource |-> PlainResource, method |-> PlainMethod] >>],
      upload    |-> [types |-> PlainTypes,
                     pairs |-> << [resource |-> PlainResource,
                                   method |-> [PlainMethod EXCEPT
                                                 !.method = "post",
                                                 !.body = <<Multipart>>]] >>],
      cyclic    |-> [types |-> CyclicTypes, pairs |-> <<>>] ]

Envs ==
    [tty : BOOLEAN, gofmt : BOOLEAN, disk : BOOLEAN,
     raml : {"unreadable"} \cup DOMAIN RamlFiles]

NoEnv == [tty |-> TRUE, gofmt |-> TRUE, disk |-> TRUE, raml |-> "empty"]
NoCall == [fn |-> "none", arg |-> <<>>, out |-> ""]

\* GoTarget.check(): return Promise.resolve()
GoTargetCheck(e) == "resolved"

\* loadApi(argv._[0])
LoadApiResult(e) == IF e.raml = "unreadable" THEN "rejected" ELSE "resolved"

\* .catch(e => { console.error(e.stack || e); process.exit(1); })
CatchStatus == 1

\* No generated function is being called, and the Client has no filter yet
NoRun == [func |-> "", err |-> FALSE, status |-> 0, at |-> 0, trace |-> <<>>]
NoClient == [filters |-> <<>>, pc |-> "idle", i |-> 0, calls |-> <<>>, requests |-> 0]
GoIdle == run = NoRun /\ client = NoClient

BuilderIdle ==
    /\ models = EmptyFile /\ endpoints = EmptyFile /\ identifiers = {}
    /\ typeIdx = 0 /\ processed = <<>> /\ genError = "none"

Init ==
    /\ pc = "start"
    /\ env \in Envs
    /\ api = NoApi
    /\ started = <<>>
    /\ failedStep = "none"
    /\ exitStatus = <<>>
    /\ todoMain = NoTask /\ todoGen = NoTask /\ stderr = <<>>
    /\ BuilderIdle
    /\ call = NoCall
    /\ GoIdle

\* index.ts 35-36: todo.start("Installing dependencies"); target.check(). Writing to
\* a stderr that is no terminal throws (stream.cursorTo is undefined), outside the
\* chain: the process dies of the uncaught TypeError with status 1.
Start ==
    /\ pc = "start"
    /\ IF env.tty
       THEN LET t == TodoStart(todoMain, stderr, "Installing dependencies")
            IN  /\ todoMain' = t.current
                /\ stderr' = t.log
                /\ started' = Append(started, "check")
                /\ pc' = "check"
                /\ UNCHANGED <<failedStep, exitStatus>>
       ELSE /\ pc' = "exited"
            /\ exitStatus' = Append(exitStatus, 1)
            /\ failedStep' = "start"
            /\ UNCHANGED <<todoMain, stderr, started>>
    /\ UNCHANGED <<env, api, todoGen, builderVars, genVars, call, goVars>>

\* index.ts 36-38: check() settles; then todo.start("Parsing RAML"), then loadApi
CheckSettles ==
    /\ pc = "check"
    /\ IF GoTargetCheck(env) = "resolved"
       THEN LET t == TodoStart(todoMain, stderr, "Parsing RAML")
            IN  /\ todoMain' = t.current
                /\ stderr' = t.log
                /\ started' = Append(started, "load")
                /\ pc' = "load"
                /\ UNCHANGED failedStep
       ELSE /\ failedStep' = "check"
            /\ pc' = "catch"
            /\ UNCHANGED <<todoMain, stderr, started>>
    /\ UNCHANGED <<env, api, exitStatus, todoGen, builderVars, genVars, call, goVars>>

\* loadApi settles, but a rejection is swallowed and the chain goes on with an empty
\* API instead of skipping to the catch handler
LoadSettlesSwallowed ==
    /\ pc = "load"
    /\ IF LoadApiResult(env) = "resolved"
       THEN /\ api' = RamlFiles[env.raml]
            /\ UNCHANGED failedStep
       ELSE /\ api' = RamlFiles.empty
            /\ failedStep' = "load"
    /\ pc' = "generate"
    /\ UNCHANGED <<env, started, exitStatus, todoMain, todoGen, stderr, builderVars,
                   genVars, call, goVars>>

\* index.ts 38-39: loadApi settles
LoadSettles ==
    /\ pc = "load"
    /\ IF LoadApiResult(env) = "resolved"
       THEN /\ api' = RamlFiles[env.raml]
            /\ pc' = "generate"
            /\ UNCHANGED failedStep
       ELSE /\ failedStep' = "load"
            /\ pc' = "catch"
            /\ UNCHANGED api
    /\ UNCHANGED <<env, started, exitStatus, todoMain, todoGen, stderr, builderVars,
                   genVars, call, goVars>>

\* index.ts 39-42 and GoTarget.generate up to module.save(): todo.finish(), a new
\* Todo, "Generating Go code", createModels, createEndpoints, "Running gofmt". What
\* the walk throws rejects the chain.
Generate ==
    /\ pc = "generate"
    /\ started' = Append(started, "generate")
    /\ \E w \in {GenerateWalk(api)},
          t1 \in {TodoStart(NoTask, TodoFinish(todoMain, stderr), "Generating Go code")} :
        /\ models' = w.models
        /\ endpoints' = w.endpoints
        /\ identifiers' = w.ids
        /\ typeIdx' = IF w.thrown THEN typeIdx ELSE Len(api.types)
        /\ processed' = IF w.thrown THEN <<>> ELSE api.pairs
        /\ IF w.thrown
           THEN /\ genError' = "RangeError"
                /\ failedStep' = "generate"
                /\ pc' = "catch"
                /\ todoGen' = t1.current
                /\ stderr' = t1.log
           ELSE /\ genError' = "none"
                /\ pc' = "save"
                /\ todoGen' = TodoStart(t1.current, t1.log, "Running gofmt").current
                /\ stderr' = TodoStart(t1.current, t1.log, "Running gofmt").log
                /\ UNCHANGED failedStep
    /\ UNCHANGED <<env, api, exitStatus, todoMain, call, goVars>>

\* module.save(): the files are written
SaveWrite ==
    /\ pc = "save"
    /\ IF env.disk
       THEN pc' = "format" /\ UNCHANGED failedStep
       ELSE pc' = "catch" /\ failedStep' = "generate"
    /\ UNCHANGED <<env, api, started, exitStatus, todoMain, todoGen, stderr,
                   builderVars, genVars, call, goVars>>

\* module.save(): the formatter runs over the output; then todo.finish()
SaveFormat ==
    /\ pc = "format"
    /\ IF env.gofmt
       THEN /\ pc' = "exit0"
            /\ stderr' = TodoFinish(todoGen, stderr)
            /\ UNCHANGED failedStep
       ELSE /\ pc' = "catch"
            /\ failedStep' = "generate"
            /\ UNCHANGED stderr
    /\ UNCHANGED <<env, api, started, exitStatus, todoMain, todoGen, builderVars,
                   genVars, call, goVars>>

\* index.ts 43: .then(() => process.exit(0))
Exit0 ==
    /\ pc = "exit0"
    /\ exitStatus' = Append(exitStatus, 0)
    /\ pc' = "exited"
    /\ UNCHANGED <<env, api, started, failedStep, todoMain, todoGen, stderr,
                   builderVars, genVars, call, goVars>>

\* index.ts 44-47: .catch(...)
Catch ==
    /\ pc = "catch"
    /\ exitStatus' = Append(exitStatus, CatchStatus)
    /\ pc' = "exited"
    /\ UNCHANGED <<env, api, started, failedStep, todoMain, todoGen, stderr,
                   builderVars, genVars, call, goVars>>

Next ==
    \/ Start
    \/ CheckSettles
    \/ LoadSettles
    \/ Generate
    \/ SaveWrite
    \/ SaveFormat
    \/ Exit0
    \/ Catch

Spec == Init /\ [][Next]_vars

-----------------------------------------------------------------------------
(* createModels alone, one type at a time, over every model of ModelApis *)

MainIdle ==
    /\ pc = "generate" /\ env = NoEnv
    /\ started = <<"check", "load", "generate">> /\ failedStep = "none"
    /\ exitStatus = <<>>
    /\ todoMain = NoTask /\ todoGen = NoTask /\ stderr = <<>>

InitModels ==
    /\ MainIdle
    /\ api \in ModelApis
    /\ BuilderIdle
    /\ call = NoCall
    /\ GoIdle

ModelsVisit ==
    /\ genError = "none"
    /\ typeIdx < Len(api.types)
    /\ \E r \in {createModelsVisit(models, identifiers, api.types, typeIdx + 1)} :
        /\ models' = r.file
        /\ identifiers' = r.ids
        /\ genError' = IF r.thrown THEN "RangeError" ELSE "none"
    /\ typeIdx' = typeIdx + 1
    /\ UNCHANGED <<mainVars, endpoints, processed, call, goVars>>

NextModels == ModelsVisit

SpecModels == InitModels /\ [][NextModels]_vars

-----------------------------------------------------------------------------
(* createEndpoints alone, one (resource, method) pair at a time *)

InitEndpoints ==
    /\ MainIdle
    /\ api = [types |-> PlainTypes, pairs |-> <<>>]
    /\ models = createModels(PlainTypes).file
    /\ identifiers = createModels(PlainTypes).ids
    /\ endpoints = EmptyFile
    /\ typeIdx = Len(PlainTypes)
    /\ processed = <<>>
    /\ genError = "none"
    /\ call = NoCall
    /\ GoIdle

\* A resource has one method per verb: no pair is visited twice
SamePair(p, q) ==
    /\ p.resource.absoluteUri = q.resource.absoluteUri
    /\ p.method.method = q.method.method

VisitOneOf(pairs) ==
    /\ genError = "none"
    /\ Len(processed) < MaxPairs
    /\ \E pair \in pairs :
        /\ \A i \in 1..Len(processed) : ~SamePair(processed[i], pair)
        /\ \E r \in {RequestMethod(endpoints, identifiers, pair.resource, pair.method,
                                   api.types)} :
            /\ endpoints' = r.file
            /\ identifiers' = r.ids
            /\ genError' = IF r.thrown THEN "RangeError" ELSE "none"
        /\ processed' = Append(processed, pair)
    /\ UNCHANGED <<mainVars, models, typeIdx, call, goVars>>

EndpointsVisit == VisitOneOf(Pairs)

NextEndpoints == EndpointsVisit

SpecEndpoints == InitEndpoints /\ [][NextEndpoints]_vars

-----------------------------------------------------------------------------
(* The pure helpers, each applied to the inputs above *)

InitNames ==
    /\ MainIdle
    /\ api = NoApi
    /\ BuilderIdle
    /\ call = NoCall
    /\ GoIdle

CallTranslatePropName ==
    /\ call.fn = "none"
    /\ \E name \in PropNames, isExported \in BOOLEAN :
        call' = [fn |-> "translatePropName",
                 arg |-> [name |-> name, isExported |-> isExported],
                 out |-> translatePropName(name, isExported)]
    /\ UNCHANGED <<mainVars, builderVars, genVars, goVars>>

CallFixCaps ==
    /\ call.fn = "none"
    /\ \E str \in Identifiers :
        call' = [fn |-> "fixCaps", arg |-> str, out |-> fixCaps(str)]
    /\ UNCHANGED <<mainVars, builderVars, genVars, goVars>>

CallTranslateTypeString ==
    /\ call.fn = "none"
    /\ \E str \in TypeStrings :
        call' = [fn |-> "translateTypeString", arg |-> str,
                 out |-> translateTypeString(str)]
    /\ UNCHANGED <<mainVars, builderVars, genVars, goVars>>

CallTranslateType ==
    /\ call.fn = "none"
    /\ \E type \in TypeDecls :
        call' = [fn |-> "translateType", arg |-> type, out |-> translateType(type)]
    /\ UNCHANGED <<mainVars, builderVars, genVars, goVars>>

NextNames ==
    \/ CallTranslatePropName
    \/ CallFixCaps
    \/ CallTranslateTypeString
    \/ CallTranslateType

SpecNames == InitNames /\ [][NextNames]_vars

-----------------------------------------------------------------------------
(* A generated function at run time: the statements Request.method wrote into it,
   executed one at a time *)

\* The pairs whose functions are called: with and without a JSON request body, with
\* every choice of responses
CallPairs ==
    { p \in Pairs :
        /\ p.method.displayName = Null /\ p.method.method = "get"
        /\ p.method.queryParameters = <<>> /\ p.method.is = <<>>
        /\ p.method.body \in { <<>>, <<JsonInline>> } }

\* What c.do returns: a transport error, or a response with its status code
TransportResults ==
    { [err |-> TRUE, status |-> 0],
      [err |-> FALSE, status |-> 200],
      [err |-> FALSE, status |-> 404] }

CallsVisit == run = NoRun /\ VisitOneOf(CallPairs)

\* The client calls a generated function
Invoke ==
    /\ run = NoRun
    /\ \E f \in 1..Len(endpoints.funcs), r \in TransportResults :
          run' = [func |-> endpoints.funcs[f].name, err |-> r.err, status |-> r.status,
                  at |-> 1, trace |-> <<>>]
    /\ UNCHANGED <<mainVars, builderVars, genVars, call, client>>

\* The line after the "})" that closes the request literal opened at line at
AfterRequest(body, at) ==
    1 + CHOOSE k \in (at + 1)..Len(body) :
            /\ body[k] = "})"
            /\ \A j \in (at + 1)..(k - 1) : body[j] # "})"

\* An if statement of the templates holds one return statement: at + 1 is inside
\* it, at + 3 is past its closing brace
Branch(taken, at) == IF taken THEN at + 1 ELSE at + 3

RunTo(at, event) == [run EXCEPT !.at = at, !.trace = Append(@, event)]

\* The statement at line at of body is executed; failed is whether a call that may
\* fail (json.Marshal, Decode) did
StepLine(body, at, failed) ==
    IF at > Len(body) THEN RunTo(0, "end")
    ELSE IF StartsWith(body[at], "return") THEN RunTo(0, body[at])
    ELSE IF body[at] = "body, err := json.Marshal(payload)"
         THEN RunTo(Branch(failed, at + 1), "marshal")
    ELSE IF body[at] = "res, err := c.do(&http.Request{"
         THEN RunTo(AfterRequest(body, at), "transport")
    ELSE IF body[at] = "if err != nil || res.StatusCode >= 300 {"
         THEN RunTo(Branch(run.err \/ run.status >= 300, at), "check")
    ELSE IF body[at] = "if err := json.NewDecoder(res.Body).Decode(&typ); err != nil {"
         THEN RunTo(Branch(failed, at), "decode")
    ELSE [run EXCEPT !.at = at + 1]

Step ==
    /\ run.at > 0
    /\ \E failed \in BOOLEAN :
          run' = StepLine(FuncOf(endpoints, run.func).body, run.at, failed)
    /\ UNCHANGED <<mainVars, builderVars, genVars, call, client>>

NextCalls ==
    \/ CallsVisit
    \/ Invoke
    \/ Step

SpecCalls == InitEndpoints /\ [][NextCalls]_vars

-----------------------------------------------------------------------------
(* The bootstrap Client (bootstrap.go): filters and do() *)

\* How many filters a Client is given, and how many requests it makes
MaxFilters == 3
MaxRequests == 2

ClientIdle == client.pc \in {"idle", "returned"}

\* c.filters = append(c.filters, f); the hooks of the last request are of no
\* account any more
Appended(f) == [client EXCEPT !.filters = Append(@, f), !.pc = "idle", !.calls = <<>>]

Hook(op, f) == [op |-> op, filter |-> f]

\* AddFilter(f) with a filter of the caller's own
AddFilter ==
    /\ ClientIdle /\ Len(client.filters) < MaxFilters
    /\ client' = Appended("custom")
    /\ UNCHANGED <<mainVars, builderVars, genVars, call, run>>

\* EnableCookies(): c.AddFilter(&cookieJar{jar: jar})
EnableCookies ==
    /\ ClientIdle /\ Len(client.filters) < MaxFilters
    /\ client' = Appended("cookieJar")
    /\ UNCHANGED <<mainVars, builderVars, genVars, call, run>>

\* UseOAuth(token): c.AddFilter(&oauthFilter{token: token})
UseOAuth ==
    /\ ClientIdle /\ Len(client.filters) < MaxFilters
    /\ client' = Appended("oauthFilter")
    /\ UNCHANGED <<mainVars, builderVars, genVars, call, run>>

\* do(req) is entered: the first loop begins
Do ==
    /\ ClientIdle /\ client.requests < MaxRequests
    /\ client' = [client EXCEPT !.pc = "before", !.i = 1, !.calls = <<>>,
                                !.requests = @ + 1]
    /\ UNCHANGED <<mainVars, builderVars, genVars, call, run>>

\* for _, f := range c.filters { f.Before(req) }
DoBefore ==
    /\ client.pc = "before" /\ client.i <= Len(client.filters)
    /\ client' = [client EXCEPT
                    !.calls = Append(@, Hook("Before", client.filters[client.i])),
                    !.i = @ + 1]
    /\ UNCHANGED <<mainVars, builderVars, genVars, call, run>>

\* A transport call that runs the After hooks whatever it returned
DoTransportAlwaysAfter ==
    /\ client.pc = "before" /\ client.i > Len(client.filters)
    /\ \E err \in BOOLEAN :
          client' = [client EXCEPT
                        !.calls = Append(@, Hook("transport", IF err THEN "err" ELSE "ok")),
                        !.pc = "after",
                        !.i = 1]
    /\ UNCHANGED <<mainVars, builderVars, genVars, call, run>>

\* res, err := c.HTTP.Do(request); if err != nil { return res, err }. (The source
\* names the argument `request`; the request in scope is req.)
DoTransport ==
    /\ client.pc = "before" /\ client.i > Len(client.filters)
    /\ \E err \in BOOLEAN :
          client' = IF err
                    THEN [client EXCEPT
                            !.calls = @ \o << Hook("transport", "err"), Hook("return", "err") >>,
                            !.pc = "returned"]
                    ELSE [client EXCEPT
                            !.calls = Append(@, Hook("transport", "ok")),
                            !.pc = "after",
                            !.i = 1]
    /\ UNCHANGED <<mainVars, builderVars, genVars, call, run>>

\* for _, f := range c.filters { f.After(res) }
DoAfter ==
    /\ client.pc = "after" /\ client.i <= Len(client.filters)
    /\ client' = [client EXCEPT
                    !.calls = Append(@, Hook("After", client.filters[client.i])),
                    !.i = @ + 1]
    /\ UNCHANGED <<mainVars, builderVars, genVars, call, run>>

\* return res, nil
DoReturn ==
    /\ client.pc = "after" /\ client.i > Len(client.filters)
    /\ client' = [client EXCEPT !.calls = Append(@, Hook("return", "nil")),
                                !.pc = "returned"]
    /\ UNCHANGED <<mainVars, builderVars, genVars, call, run>>

InitClient ==
    /\ MainIdle
    /\ api = NoApi
    /\ BuilderIdle
    /\ call = NoCall
    /\ GoIdle

NextClient ==
    \/ AddFilter
    \/ EnableCookies
    \/ UseOAuth
    \/ Do
    \/ DoBefore
    \/ DoTransport
    \/ DoAfter
    \/ DoReturn

SpecClient == InitClient /\ [][NextClient]_vars

-----------------------------------------------------------------------------
(* One Todo (todo.ts) under any sequence of start and finish calls, on a terminal *)

\* How many notifications the Todo writes before the calls stop
MaxNotifications == 4

TaskNames == {"Installing dependencies", "Parsing RAML", "Generating Go code",
              "Running gofmt"}

InitTodo ==
    /\ MainIdle
    /\ api = NoApi
    /\ BuilderIdle
    /\ call = NoCall
    /\ GoIdle

\* todo.start(name)
CallStart ==
    /\ Len(stderr) < MaxNotifications
    /\ \E name \in TaskNames :
          /\ todoMain' = TodoStart(todoMain, stderr, name).current
          /\ stderr' = TodoStart(todoMain, stderr, name).log
    /\ UNCHANGED <<pc, env, api, started, failedStep, exitStatus, todoGen, builderVars,
                   genVars, call, goVars>>

\* todo.finish()
CallFinish ==
    /\ Len(stderr) < MaxNotifications
    /\ stderr' = TodoFinish(todoMain, stderr)
    /\ UNCHANGED <<pc, env, api, started, failedStep, exitStatus, todoMain, todoGen,
                   builderVars, genVars, call, goVars>>

NextTodo ==
    \/ CallStart
    \/ CallFinish

SpecTodo == InitTodo /\ [][NextTodo]_vars

-----------------------------------------------------------------------------
(* Properties of the top-level run, checked under Spec *)

ChainOrder == <<"check", "load", "generate">>
ChainSteps == {"check", "load", "generate"}

IsPrefix(s, t) == Len(s) <= Len(t) /\ SubSeq(t, 1, Len(s)) = s

\* C1: the steps of the chain start in the order check, load, generate, each at most
\* once (nothing is retried); once a step has failed it stays the last step started
\* and the only way on is the catch handler; the process exits once, with status 0
\* only after all three steps succeeded and with a non-zero status after a failure.
C1_OrderedAbortOnFailure ==
    /\ IsPrefix(started, ChainOrder)
    /\ failedStep \in ChainSteps =>
          /\ started # <<>> /\ started[Len(started)] = failedStep
          /\ pc \in {"catch", "exited"}
    /\ failedStep = "start" => started = <<>> /\ pc = "exited"
    /\ pc = "exited" <=> exitStatus # <<>>
    /\ Len(exitStatus) <= 1
    /\ pc = "exited" /\ failedStep # "none" => exitStatus[1] # 0
    /\ pc = "exited" /\ failedStep = "none" =>
          exitStatus = <<0>> /\ started = ChainOrder

\* C1's case: the model load failed after the check, and the run is over
C1_LoadFailedWitness ==
    /\ pc = "exited"
    /\ failedStep = "load"
    /\ started = <<"check", "load">>
    /\ exitStatus = <<1>>

\* C6: with the formatter absent, check() fails and the model is never loaded.
C6_MissingFormatterStopsBeforeLoad ==
    ~env.gofmt => /\ \A i \in 1..Len(started) : started[i] # "load"
                  /\ pc \notin {"load", "generate", "save", "format", "exit0"}

\* C6's case: the formatter is absent and the model load was started all the same
C6_LoadStartedWithoutFormatter ==
    ~env.gofmt /\ started = <<"check", "load">> /\ failedStep = "none"

-----------------------------------------------------------------------------
(* Properties of the model generator, checked under SpecModels *)

ObjectNames(types) == { types[i].name : i \in { j \in 1..Len(types) : types[j].isObject } }

TypeNamed(types, name) == types[FindType(types, name)]

\* The object types a type names as its supertypes
SupersOf(types, name) ==
    { TypeNamed(types, name).type[k] : k \in 1..Len(TypeNamed(types, name).type) }
        \cap ObjectNames(types)

RECURSIVE ReachFrom(_, _, _)
ReachFrom(types, names, n) ==
    IF n = 0 THEN names
    ELSE ReachFrom(types, names \cup UNION { SupersOf(types, m) : m \in names }, n - 1)

\* Every type in the supertype chain of a type, the type itself left out unless it
\* is its own ancestor
Ancestors(types, name) == ReachFrom(types, SupersOf(types, name), Len(types))

\* An inheritance cycle lies on the supertype chain of the type
CycleFrom(types, name) ==
    \E m \in {name} \cup Ancestors(types, name) : m \in Ancestors(types, m)

VisitedObjects == { i \in 1..typeIdx : api.types[i].isObject }

\* C3: a type whose supertype chain runs into a cycle is answered with a
\* ModelLoadError; the expansion never runs until the call stack is exhausted.
C3_CycleIsModelLoadError ==
    /\ genError # "RangeError"
    /\ \A i \in VisitedObjects :
          CycleFrom(api.types, api.types[i].name) => genError = "ModelLoadError"

\* C3's case: a type on an inheritance cycle was visited and the call stack ran out
C3_StackExhausted ==
    /\ genError = "RangeError"
    /\ \E i \in VisitedObjects : CycleFrom(api.types, api.types[i].name)

\* The properties a struct owes a field to: those of the type and of every ancestor
OwedProperties(types, name) ==
    { <<m, k>> \in (({name} \cup Ancestors(types, name)) \X (1..3)) :
         k <= Len(TypeNamed(types, m).properties) }

\* C9: the Struct of every object type generated holds exactly one field per
\* property of the type or of a type in its supertype chain, and that field has the
\* normalized name, the translated type and the wire name as its tag.
C9_OneFieldPerProperty ==
    genError = "none" =>
        \A i \in VisitedObjects :
            /\ HasStruct(models, api.types[i].name)
            /\ Len(StructOf(models, api.types[i].name).fields)
                  = Cardinality(OwedProperties(api.types, api.types[i].name))
            /\ \A o \in OwedProperties(api.types, api.types[i].name) :
                  \E j \in 1..Len(StructOf(models, api.types[i].name).fields) :
                      StructOf(models, api.types[i].name).fields[j]
                        = [name |-> translatePropName(
                                       TypeNamed(api.types, o[1]).properties[o[2]].name, TRUE),
                           type |-> translateType(
                                       TypeNamed(api.types, o[1]).properties[o[2]]),
                           tag  |-> "json:\""
                                      \o TypeNamed(api.types, o[1]).properties[o[2]].name
                                      \o "\""]

\* C9's case: no cycle, all went well, and a struct holds more fields than properties
\* are owed one (a supertype reached along two paths gave its fields twice)
C9_SupertypeFieldsTwice ==
    /\ genError = "none"
    /\ \E i \in VisitedObjects :
          /\ ~CycleFrom(api.types, api.types[i].name)
          /\ Len(StructOf(models, api.types[i].name).fields)
                > Cardinality(OwedProperties(api.types, api.types[i].name))

-----------------------------------------------------------------------------
(* Properties of the endpoint generator, checked under SpecEndpoints *)

FuncNameOf(pair) == inferMethodName(pair.resource, pair.method)

Visited == 1..Len(processed)

RECURSIVE CountChar(_, _)
CountChar(s, c) ==
    IF s = "" THEN 0
    ELSE (IF CharAt(s, 1) = c THEN 1 ELSE 0) + CountChar(Drop(s, 1), c)

IsReturn(line) == StartsWith(line, "return")
\* How many values a return statement returns
ReturnArity(line) == IF line = "return" THEN 0 ELSE CountChar(line, ",") + 1
IsDecode(line) == Contains(line, ".Decode(")
Nullable(type) == StartsWith(type, "*")

UnsupportedBody(method) ==
    /\ Len(BodiesOf(method)) > 0
    /\ BodiesOf(method)[1].displayName # "application/json"

\* C2: a method whose request body is of another kind than application/json makes
\* generation fail, and no function text is emitted for it.
C2_UnsupportedBodyFails ==
    \A i \in Visited :
        UnsupportedBody(processed[i].method) =>
            /\ genError # "none"
            /\ HasFunc(endpoints, FuncNameOf(processed[i])) =>
                  FuncOf(endpoints, FuncNameOf(processed[i])).body = <<>>

\* C2's case: a multipart body, no error, and the function written all the same
C2_UnsupportedBodyEmitted ==
    /\ genError = "none"
    /\ \E i \in Visited :
          /\ UnsupportedBody(processed[i].method)
          /\ FuncOf(endpoints, FuncNameOf(processed[i])).body # <<>>

SuccessResponses(method) ==
    { k \in 1..Len(method.responses) : method.responses[k].code < 300 }

SoleSuccessHasNoBody(method) ==
    /\ Cardinality(SuccessResponses(method)) = 1
    /\ \A k \in SuccessResponses(method) : method.responses[k].body = <<>>

\* C4: a method whose only successful response has no body yields a function that
\* returns {response, error}: two declared returns, no return statement with a
\* third value, no decode step.
C4_NoBodyReturnsPair ==
    \A i \in Visited :
        SoleSuccessHasNoBody(processed[i].method) =>
            /\ FuncOf(endpoints, FuncNameOf(processed[i])).returns
                  = << "*http.Response", "error" >>
            /\ \A k \in 1..Len(FuncOf(endpoints, FuncNameOf(processed[i])).body) :
                  /\ ~IsDecode(FuncOf(endpoints, FuncNameOf(processed[i])).body[k])
                  /\ IsReturn(FuncOf(endpoints, FuncNameOf(processed[i])).body[k]) =>
                        ReturnArity(FuncOf(endpoints, FuncNameOf(processed[i])).body[k]) <= 2

\* C4's case: the one pair visited has a bodiless success response, and its function
\* decodes and returns a third value
C4_DecodesNoBody ==
    /\ Len(processed) = 1
    /\ SoleSuccessHasNoBody(processed[1].method)
    /\ \E k \in 1..Len(FuncOf(endpoints, FuncNameOf(processed[1])).body) :
          FuncOf(endpoints, FuncNameOf(processed[1])).body[k] = "return res, typ, nil"

\* A sequence of named, typed entries holds one called name whose type is nullable
\* exactly when the descriptor is optional
QualifiedAs(entries, name, decl) ==
    \E k \in 1..Len(entries) :
        entries[k].name = name /\ (Nullable(entries[k].type) <=> ~decl.required)

\* C5: every descriptor translated into a model field, a path argument, a query
\* parameter field or a response type carries the pointer qualifier exactly when it
\* is not required.
C5_NullableIffOptional ==
    /\ \A t \in { j \in 1..Len(api.types) : api.types[j].isObject } :
          \A k \in 1..Len(api.types[t].properties) :
              QualifiedAs(StructOf(models, api.types[t].name).fields,
                          translatePropName(api.types[t].properties[k].name, TRUE),
                          api.types[t].properties[k])
    /\ \A i \in Visited :
        /\ \A k \in 1..Len(PathParams(processed[i].resource)) :
              QualifiedAs(FuncOf(endpoints, FuncNameOf(processed[i])).args,
                          translatePropName(PathParams(processed[i].resource)[k].name, FALSE),
                          PathParams(processed[i].resource)[k])
        /\ \A k \in 1..Len(QueryParamsOf(processed[i].method)) :
              /\ HasStruct(endpoints, ParamsStructName(FuncNameOf(processed[i])))
              /\ QualifiedAs(StructOf(endpoints,
                                      ParamsStructName(FuncNameOf(processed[i]))).fields,
                             translatePropName(QueryParamsOf(processed[i].method)[k].name, TRUE),
                             QueryParamsOf(processed[i].method)[k])
        /\ ResTypeOf(processed[i].method, getSuccessfulResponse(processed[i].method)) # "" =>
              Nullable(ResTypeOf(processed[i].method,
                                 getSuccessfulResponse(processed[i].method)))
                <=> ~processed[i].method.responses[
                         getSuccessfulResponse(processed[i].method)].body[1].required

\* C5's case: an optional query parameter whose field is no pointer
C5_OptionalQueryFieldNotNullable ==
    /\ Len(processed) = 1
    /\ \E k \in 1..Len(QueryParamsOf(processed[1].method)) :
          /\ ~QueryParamsOf(processed[1].method)[k].required
          /\ \E f \in 1..Len(StructOf(endpoints,
                                      ParamsStructName(FuncNameOf(processed[1]))).fields) :
                StructOf(endpoints, ParamsStructName(FuncNameOf(processed[1]))).fields[f]
                  = [name |-> translatePropName(
                                 QueryParamsOf(processed[1].method)[k].name, TRUE),
                     type |-> "int", tag |-> ""]

\* C7: two distinct (resource, method) pairs never share a function: their names
\* differ, and the file holds one function per pair visited.
C7_OneFunctionPerPair ==
    /\ \A i \in Visited : \A j \in Visited :
          i # j => FuncNameOf(processed[i]) # FuncNameOf(processed[j])
    /\ genError = "none" => Len(endpoints.funcs) = Len(processed)

\* C7's case: two pairs on different resources, neither given a display name, and
\* one function between them
C7_TwoPairsOneFunction ==
    /\ Len(processed) = 2
    /\ processed[1].resource # processed[2].resource
    /\ processed[1].method.displayName = Null
    /\ processed[2].method.displayName = Null
    /\ FuncNameOf(processed[1]) = FuncNameOf(processed[2])
    /\ Len(endpoints.funcs) = 1

HasQueryArg(func) == \E k \in 1..Len(func.args) : func.args[k].name = "query"

\* C8: without query parameters (its own or its traits') a method's function
\* defines the empty query string, takes no query argument and has no
\* <FunctionName>Params struct; with some, the struct has one field per parameter
\* and the function takes it as the query argument.
C8_QueryParamsStruct ==
    \A i \in Visited :
        IF QueryParamsOf(processed[i].method) = <<>>
        THEN /\ \E k \in 1..Len(FuncOf(endpoints, FuncNameOf(processed[i])).body) :
                   FuncOf(endpoints, FuncNameOf(processed[i])).body[k] = "q := \"\""
             /\ ~HasQueryArg(FuncOf(endpoints, FuncNameOf(processed[i])))
             /\ ~HasStruct(endpoints, ParamsStructName(FuncNameOf(processed[i])))
        ELSE /\ HasStruct(endpoints, ParamsStructName(FuncNameOf(processed[i])))
             /\ Len(StructOf(endpoints, ParamsStructName(FuncNameOf(processed[i]))).fields)
                   = Len(QueryParamsOf(processed[i].method))
             /\ \E k \in 1..Len(FuncOf(endpoints, FuncNameOf(processed[i])).args) :
                   FuncOf(endpoints, FuncNameOf(processed[i])).args[k]
                     = [name |-> "query",
                        type |-> ParamsStructName(FuncNameOf(processed[i]))]

\* C8's case: a method without query parameters shares its function with one that
\* has some, and so has the Params struct and the query argument
C8_ParamsStructOfAnotherPair ==
    /\ Len(processed) = 2
    /\ FuncNameOf(processed[1]) = FuncNameOf(processed[2])
    /\ QueryParamsOf(processed[1].method) = <<>>
    /\ QueryParamsOf(processed[2].method) # <<>>
    /\ HasStruct(endpoints, ParamsStructName(FuncNameOf(processed[1])))
    /\ HasQueryArg(FuncOf(endpoints, FuncNameOf(processed[1])))

-----------------------------------------------------------------------------
(* Properties of the name resolver, checked under SpecNames *)

\* The keywords of Go
GoKeywords ==
    {"break", "case", "chan", "const", "continue", "default", "defer", "else",
     "fallthrough", "for", "func", "go", "goto", "if", "import", "interface", "map",
     "package", "range", "return", "select", "struct", "switch", "type", "var"}

\* C10: translatePropName never returns a keyword, and a property called "type"
\* becomes "kind", capitalized as the export flag asks, whatever the flag.
C10_TypeBecomesKind ==
    call.fn = "translatePropName" =>
        /\ call.out \notin GoKeywords
        /\ call.arg.name = "type" =>
              call.out = (IF call.arg.isExported THEN "Kind" ELSE "kind")

\* C10's case: an exported property called "type" keeps a form of "type"
C10_ExportedTypeKept ==
    /\ call.fn = "translatePropName"
    /\ call.arg = [name |-> "type", isExported |-> TRUE]
    /\ call.out = "Type"

\* C11: the rules of fixCaps compose: every rule is applied, in the order of the
\* list, to what the rules before it left; no needle of any rule is left in the
\* result; "OauthId" becomes "OAuthID".
C11_FixCapsComposes ==
    call.fn = "fixCaps" =>
        /\ call.out = ReplaceAll(ReplaceAll(call.arg, "Id", "ID"), "Oauth", "OAuth")
        /\ \A i \in 1..Len(capitalizations) :
              ~Contains(call.out, capitalizations[i].needle)
        /\ call.arg = "OauthId" => call.out = "OAuthID"

\* C11's case: both rules match the argument, and both took effect
C11_BothRulesFired ==
    /\ call.fn = "fixCaps"
    /\ call.arg = "OauthId"
    /\ call.out = "OAuthID"

\* The words of an identifier: a new word begins at every upper-case letter
RECURSIVE WordsFrom(_, _)
WordsFrom(s, cur) ==
    IF s = "" THEN <<cur>>
    ELSE IF CharAt(s, 1) \in Chars(UpperStr) /\ cur # ""
         THEN <<cur>> \o WordsFrom(Drop(s, 1), CharAt(s, 1))
         ELSE WordsFrom(Drop(s, 1), cur \o CharAt(s, 1))

NameWords(s) == WordsFrom(s, "")

\* A word that is exactly the needle of a rule is replaced, any other word is kept
WholeWordFix(word) ==
    IF \E i \in 1..Len(capitalizations) : capitalizations[i].needle = word
    THEN capitalizations[CHOOSE i \in 1..Len(capitalizations) :
                            capitalizations[i].needle = word].replace
    ELSE word

WholeWordsFixed(s) == Join([i \in 1..Len(NameWords(s)) |-> WholeWordFix(NameWords(s)[i])])

\* C14: a rule rewrites the words that are exactly its needle, everywhere in the
\* identifier, and leaves a longer word that contains the needle ("Identity") alone.
C14_WholeWordsOnly ==
    /\ call.fn = "fixCaps" => call.out = WholeWordsFixed(call.arg)
    /\ call.fn = "translatePropName" /\ call.arg = [name |-> "identity", isExported |-> TRUE]
          => call.out = "Identity"

\* C14's case: the needle "Id" inside the longer word "Identity" was rewritten
C14_IdentityRewritten ==
    /\ call.fn = "fixCaps"
    /\ call.arg = "Identity"
    /\ call.out = "IDentity"

\* How many "[]" suffixes a type string ends with, and the string without them
RECURSIVE SuffixDepth(_)
SuffixDepth(str) ==
    IF EndsWith(str, "[]") THEN 1 + SuffixDepth(SubSeq(str, 1, Len(str) - 2)) ELSE 0

StripSuffixes(str) == SubSeq(str, 1, Len(str) - 2 * SuffixDepth(str))

\* How deep an array declaration nests through items(), and the kind of its elements
RECURSIVE ArrayDepth(_)
ArrayDepth(decl) == IF decl.type[1] = "array" THEN 1 + ArrayDepth(decl.items) ELSE 0

RECURSIVE ElementKind(_)
ElementKind(decl) == IF decl.type[1] = "array" THEN ElementKind(decl.items) ELSE decl.type[1]

RECURSIVE SequenceOf(_)
SequenceOf(n) == IF n = 0 THEN "" ELSE "[]" \o SequenceOf(n - 1)

\* C15: an array of any nesting depth, declared through items() or through "[]"
\* suffixes, translates to one "[]" per level followed by the translated element.
C15_OneQualifierPerLevel ==
    /\ call.fn = "translateTypeString" =>
          call.out = SequenceOf(SuffixDepth(call.arg))
                       \o translateTypeString(StripSuffixes(call.arg))
    /\ call.fn = "translateType" =>
          call.out = fixCaps((IF call.arg.required THEN "" ELSE "*")
                       \o SequenceOf(ArrayDepth(call.arg)
                                       + SuffixDepth(ElementKind(call.arg)))
                       \o translateTypeString(StripSuffixes(ElementKind(call.arg))))

\* C15's case: an array whose items() are arrays of string
C15_NestedItemsLost ==
    /\ call.fn = "translateType"
    /\ call.arg = Array("p", [type |-> <<"array">>, items |-> [type |-> <<"string">>]], TRUE)
    /\ call.out = "[]array"

\* The type name a Go type refers to: the type without its "*" and "[]" qualifiers
RECURSIVE ReferredName(_)
ReferredName(type) ==
    IF StartsWith(type, "*") THEN ReferredName(Drop(type, 1))
    ELSE IF StartsWith(type, "[]") THEN ReferredName(Drop(type, 2))
    ELSE type

\* The property's elements are of an object type the API model declares
RefersToDeclared(types, prop) ==
    StripSuffixes(ElementKind(prop)) \in ObjectNames(types)

\* C16: once every type is generated, each field whose property refers to a declared
\* object type names a Struct that exists under exactly that name, whatever the
\* name contains.
C16_ReferencesNameTheirStruct ==
    typeIdx = Len(api.types) /\ genError = "none" =>
        \A i \in VisitedObjects :
            \A k \in 1..Len(api.types[i].properties) :
                RefersToDeclared(api.types, api.types[i].properties[k]) =>
                    \E f \in 1..Len(StructOf(models, api.types[i].name).fields) :
                        /\ StructOf(models, api.types[i].name).fields[f].name
                              = translatePropName(api.types[i].properties[k].name, TRUE)
                        /\ HasStruct(models,
                              ReferredName(StructOf(models, api.types[i].name).fields[f].type))

\* C16's case: the Struct is called "UserId", the field that refers to it says "UserID"
C16_ReferenceRenamed ==
    /\ typeIdx = Len(api.types) /\ genError = "none"
    /\ HasStruct(models, "UserId") /\ ~HasStruct(models, "UserID")
    /\ HasStruct(models, "Team")
    /\ \E f \in 1..Len(StructOf(models, "Team").fields) :
          StructOf(models, "Team").fields[f] = [name |-> "Owner", type |-> "UserID",
                                                tag |-> "json:\"owner\""]

\* The placeholders of a format string, in order
RECURSIVE PlaceholdersIn(_)
PlaceholdersIn(s) ==
    IF Len(s) < 2 THEN <<>>
    ELSE IF CharAt(s, 1) = "%"
         THEN <<SubSeq(s, 1, 2)>> \o PlaceholdersIn(Drop(s, 2))
         ELSE PlaceholdersIn(Drop(s, 1))

IsIntegerType(type) == ReferredName(type) \in {"int", "uint"}

\* The line agrees with the path parameters: one placeholder each, numeric exactly
\* when the argument is of an integer type
PlaceholdersAgree(line, params) ==
    /\ Len(PlaceholdersIn(line)) = Len(params)
    /\ \A p \in 1..Len(params) :
          PlaceholdersIn(line)[p] = "%d" <=> IsIntegerType(translateType(params[p]))

\* C13: the path-formatting expression of a function holds, for every path parameter
\* after the first, "%d" exactly when the parameter's argument type is an integer
\* type (kinds number, integer, uint) and "%s" otherwise.
C13_PlaceholderAgreesWithType ==
    \A i \in Visited :
        PathParams(processed[i].resource) # <<>> =>
            \E k \in 1..Len(FuncOf(endpoints, FuncNameOf(processed[i])).body) :
                /\ StartsWith(FuncOf(endpoints, FuncNameOf(processed[i])).body[k],
                              "URL: fmt.Sprintf(")
                /\ PlaceholdersAgree(FuncOf(endpoints, FuncNameOf(processed[i])).body[k],
                                     PathParams(processed[i].resource))

\* C13's case: path parameter id of kind integer, argument type int, placeholder %s
C13_IntegerGetsStringPlaceholder ==
    /\ Len(processed) = 1
    /\ PathParams(processed[1].resource) = << Scalar("id", "integer", TRUE) >>
    /\ FuncOf(endpoints, FuncNameOf(processed[1])).args[1] = [name |-> "id", type |-> "int"]
    /\ \E k \in 1..Len(FuncOf(endpoints, FuncNameOf(processed[1])).body) :
          FuncOf(endpoints, FuncNameOf(processed[1])).body[k]
            = "URL: fmt.Sprintf(\"https://h/api/v1/x/%s\", id) + q,"

\* The package a qualifier in Go text belongs to
PackageOf ==
    [ fmt   |-> "fmt",
      http  |-> "net/http",
      url   |-> "net/url",
      bytes |-> "bytes",
      json  |-> "encoding/json",
      time  |-> "time",
      io    |-> "io" ]

\* Every piece of Go text a File holds: field types, argument types, return types
\* and the lines of the function bodies
FileTexts(file) ==
    UNION { { file.structs[i].fields[k].type : k \in 1..Len(file.structs[i].fields) } :
              i \in 1..Len(file.structs) }
      \cup UNION { { file.funcs[i].args[k].type : k \in 1..Len(file.funcs[i].args) } :
                     i \in 1..Len(file.funcs) }
      \cup UNION { { file.funcs[i].returns[k] : k \in 1..Len(file.funcs[i].returns) } :
                     i \in 1..Len(file.funcs) }
      \cup UNION { { file.funcs[i].body[k] : k \in 1..Len(file.funcs[i].body) } :
                     i \in 1..Len(file.funcs) }

\* The File's text refers to the package through its qualifier
RefersTo(file, qualifier) ==
    \E text \in FileTexts(file) : Contains(text, qualifier \o ".")

ImportsComplete(file) ==
    \A q \in DOMAIN PackageOf : RefersTo(file, q) => PackageOf[q] \in file.imports

\* C17: every package the text of a File refers to is an import of that File.
C17_ImportsComplete ==
    /\ ImportsComplete(models)
    /\ ImportsComplete(endpoints)

\* C17's case: a response is decoded with json.NewDecoder in a File that does not
\* import encoding/json
C17_DecodesWithoutImport ==
    /\ Len(processed) = 1
    /\ RefersTo(endpoints, "json")
    /\ "encoding/json" \notin endpoints.imports

\* The last value of a return statement is the error
ErrorLast(line) == EndsWith(line, " err") \/ EndsWith(line, " nil")

\* C18: every return statement in a generated function returns as many values as
\* the function declares, the error last.
C18_ReturnArityMatches ==
    \A i \in Visited :
        \A k \in 1..Len(FuncOf(endpoints, FuncNameOf(processed[i])).body) :
            IsReturn(FuncOf(endpoints, FuncNameOf(processed[i])).body[k]) =>
                /\ ReturnArity(FuncOf(endpoints, FuncNameOf(processed[i])).body[k])
                      = Len(FuncOf(endpoints, FuncNameOf(processed[i])).returns)
                /\ ErrorLast(FuncOf(endpoints, FuncNameOf(processed[i])).body[k])

\* C18's case: a function declared to return three values whose decode failure
\* returns one
C18_DecodeFailureReturnsOne ==
    /\ Len(processed) = 1
    /\ Len(FuncOf(endpoints, FuncNameOf(processed[1])).returns) = 3
    /\ \E k \in 1..Len(FuncOf(endpoints, FuncNameOf(processed[1])).body) :
          FuncOf(endpoints, FuncNameOf(processed[1])).body[k] = "return err"

-----------------------------------------------------------------------------
(* Properties of a generated function at run time, checked under SpecCalls *)

\* The transport call, the status check and the decode steps of a trace, in order
StepsOf(trace) == SelectSeq(trace, LAMBDA e : e \in {"transport", "check", "decode"})

SuccessHasBody(method) ==
    /\ getSuccessfulResponse(method) # 0
    /\ method.responses[getSuccessfulResponse(method)].body # <<>>

Returned == run.func # "" /\ run.at = 0

\* C12: a decode step runs only after the transport call and then the status check,
\* and only when the transport call returned no error and a status below 300; on a
\* transport error or a status of 300 or more the function returns without it. The
\* function of a method whose success response has a body runs transport call,
\* status check, decode, in that order, when the call succeeds.
C12_DecodeOnlyAfterSuccess ==
    /\ \A d \in 1..Len(run.trace) :
          run.trace[d] = "decode" =>
              /\ ~run.err /\ run.status < 300
              /\ \E t \in 1..(d - 1) : \E c \in (t + 1)..(d - 1) :
                    run.trace[t] = "transport" /\ run.trace[c] = "check"
    /\ \A c \in 1..Len(run.trace) :
          run.trace[c] = "check" => \E t \in 1..(c - 1) : run.trace[t] = "transport"
    /\ Returned /\ (run.err \/ run.status >= 300) =>
          StepsOf(run.trace) \in { <<>>, <<"transport">>, <<"transport", "check">> }
    /\ /\ Returned /\ Len(processed) = 1 /\ SuccessHasBody(processed[1].method)
       /\ ~run.err /\ run.status < 300
       /\ \E t \in 1..Len(run.trace) : run.trace[t] = "transport"
       => StepsOf(run.trace) = <<"transport", "check", "decode">>

\* C12's case: the function of a method with a 200 response that has a body was
\* called, the call succeeded, and the body was decoded after the status check
C12_DecodedAfterCheck ==
    /\ Len(processed) = 1
    /\ SuccessHasBody(processed[1].method)
    /\ run.status = 200
    /\ run.trace = <<"transport", "check", "decode", "return res, typ, nil">>

-----------------------------------------------------------------------------
(* Properties of the bootstrap Client, checked under SpecClient *)

Befores(filters) == [i \in 1..Len(filters) |-> Hook("Before", filters[i])]
Afters(filters) == [i \in 1..Len(filters) |-> Hook("After", filters[i])]

\* What a request does when the transport call returns no error, and when it
\* returns one
HooksWhenOk(filters) ==
    Befores(filters) \o << Hook("transport", "ok") >> \o Afters(filters)
        \o << Hook("return", "nil") >>
HooksWhenErr(filters) ==
    Befores(filters) \o << Hook("transport", "err"), Hook("return", "err") >>

RequestInOrder ==
    client.pc # "idle" =>
        /\ \/ IsPrefix(client.calls, HooksWhenOk(client.filters))
           \/ IsPrefix(client.calls, HooksWhenErr(client.filters))
        /\ client.pc = "returned" =>
              client.calls \in { HooksWhenOk(client.filters), HooksWhenErr(client.filters) }

\* C19: filters are only ever appended; a request runs every Before hook in
\* registration order, then the transport call, then - only if that returned no
\* error - every After hook in registration order; on a transport error it returns
\* the error and runs no After hook.
C19_FiltersInRegistrationOrder ==
    /\ []RequestInOrder
    /\ [][IsPrefix(client.filters, client.filters')]_vars

\* C19's case: two filters, a request whose transport call failed, no After hook
C19_TransportErrorSkipsAfter ==
    /\ client.pc = "returned"
    /\ client.filters = <<"cookieJar", "oauthFilter">>
    /\ client.calls = << Hook("Before", "cookieJar"), Hook("Before", "oauthFilter"),
                         Hook("transport", "err"), Hook("return", "err") >>

-----------------------------------------------------------------------------
(* Properties of the Todo, checked under SpecTodo *)

\* C20: the notifications are sequential and do not overlap: a finish is written
\* only right after the start of the same task, so for a started task only and at
\* most once; a start is written only when no task is in progress.
C20_NotificationsSequential ==
    \A j \in 1..Len(stderr) :
        /\ stderr[j].kind = "finish" =>
              /\ j > 1
              /\ stderr[j - 1] = [kind |-> "start", task |-> stderr[j].task]
        /\ stderr[j].kind = "start" /\ j > 1 => stderr[j - 1].kind = "finish"

\* C20's case: start, finish, start: the task already reported finished is
\* reported finished once more
C20_FinishedTwice ==
    stderr = << [kind |-> "start", task |-> "Parsing RAML"],
                [kind |-> "finish", task |-> "Parsing RAML"],
                [kind |-> "finish", task |-> "Parsing RAML"],
                [kind |-> "start", task |-> "Generating Go code"] >>

=============================================================================
